---- MODULE Spec2Model ----
(***************************************************************************)
(* Model of the multi-camera scheduling and alerting engine of the         *)
(* Monitor component (src/components/Monitor.tsx) together with the        *)
(* analysis gateway it calls (analyzeSafetyImage, src/unnamed/part_002).   *)
(*                                                                         *)
(* Monitor is a React function component.  Its state lives in useState     *)
(* cells and in refs.  A callback made by useCallback closes over the      *)
(* values of the render that created it; the interval timer installed by   *)
(* toggleMonitoring keeps the captureAndAnalyze callback of the render in  *)
(* which monitoring was started, and every continuation after the await    *)
(* of the gateway call runs in the closure of the call that started it.    *)
(* State cells are read through such a closure (a record of the captured   *)
(* render, see Render), refs and functional state updates read the live    *)
(* value.  Times are Date.now() values in milliseconds.                    *)
(***************************************************************************)
EXTENDS Integers, Sequences, FiniteSets, TLC

(***************************************************************************)
(* Bounds of the model.                                                    *)
(***************************************************************************)
\* Date.now() when the component is mounted (ms); large against every
\* interval of the model, as the wall clock is.
Epoch == 1000000
\* Number of clock steps explored after Epoch.
MaxSteps == 3
\* Cap on the gateway calls started in one run.
MaxCalls == 2
\* The same caps for the runs that follow one long monitoring session.
LongSteps == 6
LongCalls == 7
\* Longest raw hazard list drawn for the hazard filter.
MaxHazards == 2
\* Clock steps and gateway calls of a run of the urgency sessions.
UrgencySteps == 2
UrgencyCalls == 3
\* Gateway calls of a run that fills the history: more than its capacity.
HistoryCalls == 11
\* Gateway calls of a run that feeds the prediction heuristics.
AdvisoryCalls == 5
\* Gateway calls of a run in which requests fail after analyses succeeded.
RecoveryCalls == 3
\* Gateway calls of a run under a chosen severity trigger.
SeverityCalls == 3

(***************************************************************************)
(* Program constants.                                                      *)
(***************************************************************************)
API_TIMEOUT_MS == 15000
COOLDOWN == 300000
HistoryCapacity == 10
DefaultThreshold == 50
DefaultConfidence == 100
HazardMultiplier == 15
SafeScoreFloor == 80
\* "after ~60 seconds of neglect other cameras will catch up", in ms.
NeglectMs == 60000

\* The video devices found by enumerateDevices, in enumeration order.
Devices == <<"camA", "camB", "camC">>
DeviceIds == {Devices[i] : i \in 1..Len(Devices)}

\* Period of the monitoring timer for n active cameras.
IntervalMs(n) == IF n > 1 THEN 5000 ELSE 10000
\* Resolution of the model's clock: the shorter timer period.
ClockStep == IntervalMs(2)

Categories == {"PPE", "MACHINERY", "HOUSEKEEPING", "FIRE", "BEHAVIOR", "OTHER"}
Severities == {"SAFE", "LOW", "MEDIUM", "HIGH"}
SeverityTriggers == {"OFF", "LOW", "MEDIUM", "HIGH"}

EmptyMap == [x \in {} |-> 0]
\* obj[key] || 0 on a JavaScript object used as a map.
GetOr0(obj, key) == IF key \in DOMAIN obj THEN obj[key] ELSE 0
\* A variant of Put that drops the other keys: { [key]: value }
Put_OnlyKey(obj, key, value) == [k \in {key} |-> value]

\* { ...obj, [key]: value }
Put(obj, key, value) ==
  [k \in DOMAIN obj \cup {key} |-> IF k = key THEN value ELSE obj[k]]

Min(a, b) == IF a < b THEN a ELSE b

Range(s) == {s[i] : i \in DOMAIN s}

RECURSIVE SelectSeqBy(_, _)
\* Array.prototype.filter: the members of s in keep, in their order.
SelectSeqBy(s, keep) ==
  IF s = <<>> THEN <<>>
  ELSE IF Head(s) \in keep THEN <<Head(s)>> \o SelectSeqBy(Tail(s), keep)
       ELSE SelectSeqBy(Tail(s), keep)

RECURSIVE SumScores(_)
SumScores(s) == IF s = <<>> THEN 0 ELSE Head(s).safetyScore + SumScores(Tail(s))

\* Array.prototype.slice(-n)
LastN(s, n) == IF Len(s) <= n THEN s ELSE SubSeq(s, Len(s) - n + 1, Len(s))

(***************************************************************************)
(* The analysis gateway: analyzeSafetyImage.                               *)
(***************************************************************************)
\* A hazard keeps the fields the engine reads: type, category, severity and
\* confidence.  A hazard without a confidence field has confidence undefined.
NoHelmet59 == [type |-> "No Helmet", category |-> "PPE", severity |-> "HIGH", confidence |-> 59]
NoHelmet60 == [type |-> "No Helmet", category |-> "PPE", severity |-> "HIGH", confidence |-> 60]
TripLow == [type |-> "Trip Hazard", category |-> "HOUSEKEEPING", severity |-> "LOW", confidence |-> 80]

\* Result of a call that answered: {...data, timestamp}, data parsed from
\* the model's JSON.  The gateway's own isSafe is part of it.  summary
\* stands for the text of the summary field.
Analysed(score, safe, hz) ==
  [safetyScore |-> score, isSafe |-> safe, summary |-> "analysis", hazards |-> hz]

\* Fallback returned when withTimeout rejects with REQUEST_TIMEOUT.
TimeoutResult ==
  [safetyScore |-> 0 - 1, isSafe |-> TRUE, summary |-> "timeout", hazards |-> <<>>]

\* Fallback returned for every other error (no API key, a failed request,
\* an empty or unparsable answer).
ErrorResult ==
  [safetyScore |-> 0, isSafe |-> FALSE, summary |-> "error", hazards |-> <<>>]

\* Fallback returned when the licence check throws UNAUTHORIZED.
UnauthorizedResult ==
  [safetyScore |-> 0, isSafe |-> FALSE, summary |-> "unauthorized", hazards |-> <<>>]

\* The request promise rejects, or the code after it throws, with an Error
\* of the given message.
Rejected(msg) == [error |-> msg]

\* Messages of the errors the gateway meets: the watchdog, a response with
\* a non-success status, a response without text (a response whose text
\* JSON.parse rejects takes the same path with the parser's message).
RequestTimeout == "REQUEST_TIMEOUT"
HttpFailure == "500 Internal Server Error"
EmptyResponse == "Empty response from AI"

\* An answer whose JSON parses but has no hazards array: result.hazards is
\* undefined and reading it in captureAndAnalyze throws.
MalformedResult ==
  [safetyScore |-> 90, isSafe |-> TRUE, summary |-> "malformed"]

\* A variant of withTimeout that only waits for the request.
withTimeout_NoWatchdog(deadline, t, answers) == answers

\* withTimeout(request, API_TIMEOUT_MS) for a call with the given deadline,
\* settling at time t, when the request settles as one of answers: the
\* watchdog rejects when its timer wins the race.
withTimeout(deadline, t, answers) ==
  IF t >= deadline THEN {Rejected(RequestTimeout)} ELSE answers

\* A variant of the catch block that handles the timeout only and rethrows
\* every other error.
Fallback_TimeoutOnly(msg) ==
  IF msg = RequestTimeout THEN TimeoutResult ELSE Rejected(msg)

\* The catch block of analyzeSafetyImage.
Fallback(msg) ==
  IF msg = "UNAUTHORIZED" THEN UnauthorizedResult
  ELSE IF msg = RequestTimeout THEN TimeoutResult
  ELSE ErrorResult

\* What analyzeSafetyImage resolves with when the awaited request settled
\* as answer: the parsed answer or the fallback of the catch block.
analyzeSafetyImage(answer) ==
  IF "error" \in DOMAIN answer THEN Fallback(answer.error) ELSE answer

(***************************************************************************)
(* Hazard filter (captureAndAnalyze, after the await).                     *)
(***************************************************************************)
\* alertSettings.categoryThresholds[h.category] || 50
ThresholdFor(thresholds, category) ==
  IF category \in DOMAIN thresholds /\ thresholds[category] # 0
  THEN thresholds[category]
  ELSE DefaultThreshold

\* h.confidence !== undefined ? h.confidence : 100
ConfidenceOf(h) ==
  IF "confidence" \in DOMAIN h THEN h.confidence ELSE DefaultConfidence

PassesFilter(h, thresholds) ==
  ConfidenceOf(h) >= ThresholdFor(thresholds, h.category)

RECURSIVE FilterHazards(_, _)
FilterHazards(hazards, thresholds) ==
  IF hazards = <<>> THEN <<>>
  ELSE IF PassesFilter(Head(hazards), thresholds)
       THEN <<Head(hazards)>> \o FilterHazards(Tail(hazards), thresholds)
       ELSE FilterHazards(Tail(hazards), thresholds)

\* A variant of ComputeIsSafe that keeps the gateway's own verdict.
ComputeIsSafe_TrustsGateway(result, filteredHazards) == result.isSafe

\* const isSafe = filteredHazards.length === 0 && result.safetyScore > 80
ComputeIsSafe(result, filteredHazards) ==
  Len(filteredHazards) = 0 /\ result.safetyScore > SafeScoreFloor

\* A variant of FilteredResult that derives isSafe from the hazards as they
\* came from the gateway.
FilteredResult_SafeFromRaw(result, thresholds) ==
  [safetyScore |-> result.safetyScore,
   isSafe |-> ComputeIsSafe(result, result.hazards),
   summary |-> result.summary,
   hazards |-> FilterHazards(result.hazards, thresholds)]

\* filteredResult = {...result, hazards: filteredHazards, isSafe}
FilteredResult(result, thresholds) ==
  LET fh == FilterHazards(result.hazards, thresholds)
  IN  [safetyScore |-> result.safetyScore,
       isSafe |-> ComputeIsSafe(result, fh),
       summary |-> result.summary,
       hazards |-> fh]

(***************************************************************************)
(* checkAlerts, as functions of the analysis and of the captured settings. *)
(***************************************************************************)
\* severityMap[h.severity] || 0
SeverityMap(sev) ==
  CASE sev = "LOW" -> 1 [] sev = "MEDIUM" -> 2 [] sev = "HIGH" -> 3 [] OTHER -> 0

RECURSIVE MaxSeverity(_)
MaxSeverity(hazards) ==
  IF hazards = <<>> THEN 0
  ELSE LET m == MaxSeverity(Tail(hazards))
           s == SeverityMap(Head(hazards).severity)
       IN  IF s > m THEN s ELSE m

\* A variant of TriggerThresholds in which OFF stands for HIGH.
TriggerThresholds_OffAsHigh(trigger) ==
  CASE trigger = "LOW" -> 1 [] trigger = "MEDIUM" -> 2 [] OTHER -> 3

\* triggerThresholds[alertSettings.minSeverityTrigger]
TriggerThresholds(trigger) ==
  CASE trigger = "LOW" -> 1 [] trigger = "MEDIUM" -> 2 [] trigger = "HIGH" -> 3
    [] OTHER -> 99

ShouldTrigger(analysis, settings) ==
  \/ analysis.safetyScore < settings.minSafetyScore
  \/ LET userThreshold == TriggerThresholds(settings.minSeverityTrigger)
     IN  userThreshold < 99 /\ MaxSeverity(analysis.hazards) >= userThreshold

CriticalHazards(analysis) ==
  SelectSeqBy(analysis.hazards, {h \in Range(analysis.hazards) : h.severity = "HIGH"})

\* A variant of SmsFires that sends the message only for an analysis that
\* also raises the main alarm.
SmsFires_OnlyOnTrigger(analysis, settings, lastSms, t) ==
  /\ settings.smsEnabled
  /\ settings.phoneNumber # ""
  /\ Len(CriticalHazards(analysis)) > 0
  /\ t - lastSms > COOLDOWN
  /\ ShouldTrigger(analysis, settings)

\* A variant of SmsFires without the cooldown test.
SmsFires_NoCooldown(analysis, settings, lastSms, t) ==
  /\ settings.smsEnabled
  /\ settings.phoneNumber # ""
  /\ Len(CriticalHazards(analysis)) > 0

\* The SMS branch of checkAlerts is taken.
SmsFires(analysis, settings, lastSms, t) ==
  /\ settings.smsEnabled
  /\ settings.phoneNumber # ""
  /\ Len(CriticalHazards(analysis)) > 0
  /\ t - lastSms > COOLDOWN

(***************************************************************************)
(* generatePredictions.                                                    *)
(***************************************************************************)
\* The words type.toLowerCase().includes(...) is asked about, per hazard
\* type of the model.
WordsOf(type) ==
  CASE type = "No Helmet" -> {"helmet"}
    [] type = "Trip Hazard" -> {"trip"}
    [] OTHER -> {}

HasWord(h, words) == WordsOf(h.type) \cap words # {}

\* [...history, current].filter(h => h.hazards.some(helmet or head)).length
HelmetViolations(records) ==
  Cardinality({i \in DOMAIN records :
                 \E h \in Range(records[i].hazards) : HasWord(h, {"helmet", "head"})})

\* The list given to setPredictions.  avgScore = sum / length is compared
\* through sum and length, which is the same comparison without the division.
GeneratePredictions(current, history) ==
  LET window == Append(history, current)
      recent == LastN(window, 5)
      total == SumScores(recent)
      n == Len(recent)
      helmets == HelmetViolations(window)
      fatigue == IF Len(history) > 2 /\ total < 70 * n /\ total > 50 * n
                 THEN <<[hazardType |-> "Worker Fatigue / Decreased Attention",
                         probability |-> 75]>>
                 ELSE <<>>
      head == IF helmets >= 2
              THEN <<[hazardType |-> "High Risk of Head Injury",
                      probability |-> Min(99, 85 + helmets * 2)]>>
              ELSE <<>>
      trip == IF \E h \in Range(current.hazards) : HasWord(h, {"trip", "housekeeping"})
              THEN <<[hazardType |-> "Area Congestion / Blocked Access",
                      probability |-> 60]>>
              ELSE <<>>
      safe == IF current.isSafe /\ Len(history) > 5 /\ total > 90 * n
              THEN <<[hazardType |-> "Sustained Safe Operations",
                      probability |-> 95]>>
              ELSE <<>>
  IN  fatigue \o head \o trip \o safe

(***************************************************************************)
(* getNextSmartCamera.                                                     *)
(***************************************************************************)
\* A variant of the priority without the hazard weight.
PriorityMs_IdleOnly(id, lastCheckTimes, hazardLevels, t) ==
  t - GetOr0(lastCheckTimes, id)

\* priority = secondsSinceCheck + hazardWeight, kept in milliseconds:
\* (now - lastCheck) / 1000 + level * 15 is compared as
\* (now - lastCheck) + level * 15 * 1000.
PriorityMs(id, lastCheckTimes, hazardLevels, t) ==
  (t - GetOr0(lastCheckTimes, id)) + GetOr0(hazardLevels, id) * HazardMultiplier * 1000

RECURSIVE SmartScan_LastOnTie(_, _, _, _, _, _)
\* A variant of the loop that compares with >=, so that the last camera
\* with the greatest priority is kept.
SmartScan_LastOnTie(ids, lastCheckTimes, hazardLevels, t, best, maxPriority) ==
  IF ids = <<>> THEN best
  ELSE LET p == PriorityMs(Head(ids), lastCheckTimes, hazardLevels, t)
       IN  IF p >= maxPriority
           THEN SmartScan_LastOnTie(Tail(ids), lastCheckTimes, hazardLevels, t, Head(ids), p)
           ELSE SmartScan_LastOnTie(Tail(ids), lastCheckTimes, hazardLevels, t, best, maxPriority)

RECURSIVE SmartScan(_, _, _, _, _, _)
\* The forEach loop: best and maxPriority after the remaining ids.
SmartScan(ids, lastCheckTimes, hazardLevels, t, best, maxPriority) ==
  IF ids = <<>> THEN best
  ELSE LET p == PriorityMs(Head(ids), lastCheckTimes, hazardLevels, t)
       IN  IF p > maxPriority
           THEN SmartScan(Tail(ids), lastCheckTimes, hazardLevels, t, Head(ids), p)
           ELSE SmartScan(Tail(ids), lastCheckTimes, hazardLevels, t, best, maxPriority)

getNextSmartCamera(ids, lastCheckTimes, hazardLevels, t) ==
  IF Len(ids) = 0 THEN ""
  ELSE IF Len(ids) = 1 THEN ids[1]
  ELSE SmartScan(ids, lastCheckTimes, hazardLevels, t, ids[1], 0 - 1000)

(***************************************************************************)
(* State.                                                                  *)
(***************************************************************************)
VARIABLES
  now,                      \* Date.now()
  activeDeviceIds,          \* useState: the active cameras, in order
  isMonitoring,             \* useState
  isAnalyzing,              \* useState: the busy flag
  isSmartMode,              \* useState
  currentAnalysisCameraId,  \* useState ("" for null)
  cameraLastCheckTime,      \* useState: deviceId -> Date.now() of last cycle
  cameraHazardLevel,        \* useState: deviceId -> 0..3
  cameraAnalyses,           \* useState: deviceId -> latest filtered analysis
  analysisHistory,          \* useState: the last filtered analyses
  predictions,              \* useState
  alertSettings,            \* useState
  isAlertActive,            \* useState
  isSilenced,               \* useState
  lastSmsTimeRef,           \* useRef
  oscillatorRef,            \* useRef: TRUE while an oscillator is running
  cameraCycleIndex,         \* useRef
  timers,                   \* the interval timer of toggleMonitoring, if set
  pending,                  \* gateway calls in flight, in the order started
  smsLog,                   \* times of the simulated SMS messages sent
  logs,                     \* App: the entries given to onNewAnalysis
  gateway,                  \* the answers the gateway gives in this run
  budget,                   \* what is left of the bounds of this run
  sel,                      \* cameras of the cycles started in a row under
                            \* equal hazard levels (see SelAfter)
  last                      \* the step taken last

vars ==
  <<now, activeDeviceIds, isMonitoring, isAnalyzing, isSmartMode,
    currentAnalysisCameraId, cameraLastCheckTime, cameraHazardLevel,
    cameraAnalyses, analysisHistory, predictions, alertSettings, isAlertActive,
    isSilenced, lastSmsTimeRef, oscillatorRef, cameraCycleIndex, timers,
    pending, smsLog, logs, gateway, budget, sel, last>>

\* The values a callback created in the current render closes over.
Render ==
  [isAnalyzing |-> isAnalyzing,
   isSmartMode |-> isSmartMode,
   activeDeviceIds |-> activeDeviceIds,
   cameraLastCheckTime |-> cameraLastCheckTime,
   cameraHazardLevel |-> cameraHazardLevel,
   alertSettings |-> alertSettings,
   isAlertActive |-> isAlertActive,
   isSilenced |-> isSilenced]

\* useState initial value of alertSettings.
InitialAlertSettings ==
  [minSafetyScore |-> 60,
   minSeverityTrigger |-> "HIGH",
   soundEnabled |-> TRUE,
   smsEnabled |-> FALSE,
   phoneNumber |-> "",
   categoryThresholds |->
     [c \in Categories |->
        CASE c = "PPE" -> 60 [] c = "MACHINERY" -> 70 [] c = "FIRE" -> 60
          [] OTHER -> 50]]

Step(op, cam, raw, env) == [op |-> op, cam |-> cam, raw |-> raw, env |-> env]

\* The bounds of a run: clock steps, gateway calls started, the controls
\* the user operates (in this order, each at any moment), idle periods.
Limits(steps, calls, script, idle) ==
  [steps |-> steps, calls |-> calls, script |-> script, idle |-> idle]

\* A use of a control of the user interface takes it off the script.
Operates(control) ==
  /\ budget.script # <<>>
  /\ Head(budget.script) = control
  /\ budget' = [budget EXCEPT !.script = Tail(@)]

\* The component with monitoring not yet started: the cameras selected,
\* the scheduling mode and the settings are what the user has set them to,
\* the last-check times and hazard levels of the cameras are the given
\* maps, everything else is as constructed.
Scheduled(ids, smart, settings, checked, levels, answers, limits) ==
  /\ now = Epoch
  /\ activeDeviceIds = ids
  /\ isMonitoring = FALSE
  /\ isAnalyzing = FALSE
  /\ isSmartMode = smart
  /\ currentAnalysisCameraId = ""
  /\ cameraLastCheckTime = checked
  /\ cameraHazardLevel = levels
  /\ cameraAnalyses = EmptyMap
  /\ analysisHistory = <<>>
  /\ predictions = <<>>
  /\ alertSettings = settings
  /\ isAlertActive = FALSE
  /\ isSilenced = FALSE
  /\ lastSmsTimeRef = 0
  /\ oscillatorRef = FALSE
  /\ cameraCycleIndex = 0
  /\ timers = <<>>
  /\ pending = <<>>
  /\ smsLog = <<>>
  /\ logs = <<>>
  /\ gateway = answers
  /\ budget = limits
  /\ sel = <<>>
  /\ last = Step("mount", "", <<>>, <<>>)

\* The same with no camera analysed yet.
Configured(ids, smart, settings, answers, limits) ==
  Scheduled(ids, smart, settings, EmptyMap, EmptyMap, answers, limits)

\* The state after the component is constructed, for a run with the given
\* gateway answers and bounds.
Mounted(answers, limits) ==
  Configured(<<>>, TRUE, InitialAlertSettings, answers, limits)

\* The runs explored: each draws the gateway's answers from one group and
\* follows one script of the user.
ScoreAnswers == {Analysed(55, FALSE, <<>>), Analysed(70, TRUE, <<>>)}
SmsAnswers == {Analysed(85, TRUE, <<NoHelmet59>>), Analysed(85, FALSE, <<NoHelmet60>>)}
CooldownAnswers == {Analysed(85, FALSE, <<NoHelmet60>>)}
ThresholdAnswers == {Analysed(85, TRUE, <<NoHelmet59>>), Analysed(90, TRUE, <<TripLow>>)}
CameraAnswers == {Analysed(85, FALSE, <<NoHelmet60>>), Analysed(90, TRUE, <<>>)}
FailureAnswers == {Rejected(HttpFailure), Rejected(EmptyResponse), MalformedResult}

Scenario(answers, script, steps, calls, idle) ==
  [answers |-> answers, limits |-> Limits(steps, calls, script, idle)]

Scenarios ==
  { Scenario(ScoreAnswers, <<>>, MaxSteps, MaxCalls, 0),
    Scenario(FailureAnswers, <<>>, MaxSteps, MaxCalls, 0),
    Scenario(ScoreAnswers, <<"minSafetyScore", "minSafetyScore">>, MaxSteps - 3, MaxCalls - 1, 0),
    Scenario(SmsAnswers, <<"sms", "sms">>, MaxSteps - 3, MaxCalls - 1, 0),
    Scenario(CooldownAnswers, <<"sms", "sms">>, MaxSteps - 2, MaxCalls, 1),
    Scenario(ThresholdAnswers, <<"categoryThreshold">>, MaxSteps - 3, MaxCalls - 1, 0),
    Scenario(CameraAnswers, <<"camera", "camera">>, MaxSteps - 3, MaxCalls - 1, 0),
    Scenario(CameraAnswers, <<"camera", "smartMode">>, MaxSteps - 3, MaxCalls - 1, 0) }

Init == \E sc \in Scenarios : Mounted(sc.answers, sc.limits)

(***************************************************************************)
(* Ghost bookkeeping for the fairness claims.                              *)
(***************************************************************************)
\* Smart mode, two or more active cameras, all with the same hazard level.
EvenLoad(smart, ids, levels) ==
  /\ smart
  /\ Len(ids) >= 2
  /\ \A i, j \in 1..Len(ids) : GetOr0(levels, ids[i]) = GetOr0(levels, ids[j])

\* sel after a step that leaves monitoring running: the cameras of the
\* cycles started since EvenLoad last began to hold without interruption
\* (started = <<cam>> when the step started a cycle, <<>> when not).
SelAfter(started, broken) ==
  sel' = IF broken \/ ~EvenLoad(isSmartMode', activeDeviceIds', cameraHazardLevel')
         THEN <<>>
         ELSE sel \o started

(***************************************************************************)
(* captureAndAnalyze up to the await, run in the closure c.                *)
(***************************************************************************)
\* The guard of captureAndAnalyze: it returns at once.
ReturnsEarly(c) == Len(c.activeDeviceIds) = 0 \/ c.isAnalyzing

\* (cameraCycleIndex.current + 1) % activeDeviceIds.length
NextIndex(c) == (cameraCycleIndex + 1) % Len(c.activeDeviceIds)

\* The camera the cycle is about ("" when there is none).
CycleDevice(c) ==
  IF ReturnsEarly(c) THEN ""
  ELSE IF c.isSmartMode
       THEN getNextSmartCamera(c.activeDeviceIds, c.cameraLastCheckTime,
                               c.cameraHazardLevel, now)
       ELSE c.activeDeviceIds[NextIndex(c) + 1]

\* webcamRefs.current[deviceId]: the Webcam elements are those of the
\* active cameras of the live render.
HasWebcam(deviceId) == deviceId \in Range(activeDeviceIds)

\* The cycle goes on to call the gateway: there is a webcam and
\* getScreenshot gave a frame.
StartsCall(c, frame) ==
  ~ReturnsEarly(c) /\ HasWebcam(CycleDevice(c)) /\ frame

NewCall(c) == [cam |-> CycleDevice(c), deadline |-> now + API_TIMEOUT_MS, env |-> c]

CaptureAndAnalyze(c, frame) ==
  /\ cameraCycleIndex' =
       IF ReturnsEarly(c) \/ c.isSmartMode THEN cameraCycleIndex ELSE NextIndex(c)
  /\ IF StartsCall(c, frame)
     THEN /\ budget.calls > 0
          /\ currentAnalysisCameraId' = CycleDevice(c)
          /\ pending' = Append(pending, NewCall(c))
     ELSE UNCHANGED <<currentAnalysisCameraId, pending>>

StartedBy(c, frame) == IF StartsCall(c, frame) THEN <<CycleDevice(c)>> ELSE <<>>

CallsAfter(c, frame) == IF StartsCall(c, frame) THEN budget.calls - 1 ELSE budget.calls

(***************************************************************************)
(* toggleMonitoring.                                                       *)
(***************************************************************************)
\* The timer set by setInterval(captureAndAnalyze, intervalMs).
NewTimer ==
  [due |-> now + IntervalMs(Len(activeDeviceIds)),
   period |-> IntervalMs(Len(activeDeviceIds)),
   callback |-> Render]

\* toggleMonitoring while not monitoring, and the effect that follows the
\* change of intervalId (its clean-up calls stopAlarm).
StartMonitoring ==
  /\ ~isMonitoring
  /\ \E frame \in BOOLEAN :
       /\ CaptureAndAnalyze(Render, frame)
       /\ isAnalyzing' = (isAnalyzing \/ StartsCall(Render, frame))
       /\ budget' = [budget EXCEPT !.calls = CallsAfter(Render, frame)]
       /\ sel' = IF EvenLoad(isSmartMode, activeDeviceIds, cameraHazardLevel)
                    /\ StartsCall(Render, frame)
                 THEN StartedBy(Render, frame) ELSE <<>>
       /\ last' = Step("start", IF StartsCall(Render, frame) THEN CycleDevice(Render) ELSE "",
                       <<>>, <<>>)
  /\ isMonitoring' = TRUE
  /\ timers' = <<NewTimer>>
  /\ oscillatorRef' = FALSE
  /\ UNCHANGED <<now, activeDeviceIds, isSmartMode, cameraLastCheckTime,
                 cameraHazardLevel, cameraAnalyses, analysisHistory, predictions,
                 alertSettings, isAlertActive, isSilenced, lastSmsTimeRef,
                 smsLog, logs, gateway>>

\* A variant of StopMonitoring without clearInterval.
StopMonitoring_KeepsTimer ==
  /\ isMonitoring
  /\ timers' = timers
  /\ isMonitoring' = FALSE
  /\ isAnalyzing' = FALSE
  /\ isSilenced' = FALSE
  /\ predictions' = <<>>
  /\ sel' = <<>>
  /\ last' = Step("stop", "", <<>>, <<>>)
  /\ UNCHANGED <<now, activeDeviceIds, isSmartMode, currentAnalysisCameraId,
                 cameraLastCheckTime, cameraHazardLevel, cameraAnalyses,
                 analysisHistory, alertSettings, isAlertActive, lastSmsTimeRef,
                 oscillatorRef, cameraCycleIndex, pending, smsLog, logs, gateway,
                 budget>>

\* A variant of StopMonitoring that also leaves the state ACTIVE.
StopMonitoring_ClearsAlert ==
  /\ isMonitoring
  /\ timers' = <<>>
  /\ isMonitoring' = FALSE
  /\ isAnalyzing' = FALSE
  /\ isSilenced' = FALSE
  /\ isAlertActive' = FALSE
  /\ predictions' = <<>>
  /\ sel' = <<>>
  /\ last' = Step("stop", "", <<>>, <<>>)
  /\ UNCHANGED <<now, activeDeviceIds, isSmartMode, currentAnalysisCameraId,
                 cameraLastCheckTime, cameraHazardLevel, cameraAnalyses,
                 analysisHistory, alertSettings, lastSmsTimeRef,
                 oscillatorRef, cameraCycleIndex, pending, smsLog, logs, gateway,
                 budget>>

\* toggleMonitoring while monitoring.
StopMonitoring ==
  /\ isMonitoring
  /\ timers' = <<>>
  /\ isMonitoring' = FALSE
  /\ isAnalyzing' = FALSE
  /\ isSilenced' = FALSE
  /\ predictions' = <<>>
  /\ sel' = <<>>
  /\ last' = Step("stop", "", <<>>, <<>>)
  /\ UNCHANGED <<now, activeDeviceIds, isSmartMode, currentAnalysisCameraId,
                 cameraLastCheckTime, cameraHazardLevel, cameraAnalyses,
                 analysisHistory, alertSettings, isAlertActive, lastSmsTimeRef,
                 oscillatorRef, cameraCycleIndex, pending, smsLog, logs, gateway,
                 budget>>

\* The interval timer fires: the callback it was given runs.
Tick ==
  /\ timers # <<>>
  /\ timers[1].due = now
  /\ \E frame \in BOOLEAN :
       LET c == timers[1].callback IN
       /\ CaptureAndAnalyze(c, frame)
       /\ isAnalyzing' = (isAnalyzing \/ StartsCall(c, frame))
       /\ budget' = [budget EXCEPT !.calls = CallsAfter(c, frame)]
       /\ last' = Step("tick", IF StartsCall(c, frame) THEN CycleDevice(c) ELSE "",
                       <<>>, <<>>)
       /\ UNCHANGED <<activeDeviceIds, isSmartMode, cameraHazardLevel>>
       /\ SelAfter(StartedBy(c, frame), ~StartsCall(c, frame))
  /\ timers' = <<[timers[1] EXCEPT !.due = now + timers[1].period]>>
  /\ UNCHANGED <<now, isMonitoring, cameraLastCheckTime,
                 cameraAnalyses, analysisHistory, predictions, alertSettings,
                 isAlertActive, isSilenced, lastSmsTimeRef, oscillatorRef,
                 smsLog, logs, gateway>>

(***************************************************************************)
(* captureAndAnalyze after the await: a gateway call resolves.             *)
(***************************************************************************)
\* A variant of RaisesAlert that also raises the alert on a trend: when the
\* history holds three records.
RaisesAlert_OnTrend(analysis, env) ==
  /\ ShouldTrigger(analysis, env.alertSettings) \/ Len(analysisHistory) >= 3
  /\ ~env.isAlertActive
  /\ ~env.isSilenced

\* if (shouldTrigger) { if (!isAlertActive && !isSilenced) {...} }, read in
\* the closure env of the call.
RaisesAlert(analysis, env) ==
  ShouldTrigger(analysis, env.alertSettings) /\ ~env.isAlertActive /\ ~env.isSilenced

\* A variant of startAlarm without the test of soundEnabled.
StartAlarm_IgnoresSound(env, oscillator) == TRUE

\* startAlarm: the oscillator afterwards.
StartAlarm(env, oscillator) ==
  IF ~env.alertSettings.soundEnabled \/ oscillator THEN oscillator ELSE TRUE

\* The entry given to onNewAnalysis, without its id and thumbnail; the label
\* of a device stands for itself.
LogEntry(analysis, deviceId) ==
  [cameraLabel |-> deviceId, safetyScore |-> analysis.safetyScore,
   isSafe |-> analysis.isSafe, summary |-> analysis.summary,
   hazards |-> analysis.hazards]

\* A variant of HistoryAfter that never evicts.
HistoryAfter_NoEviction(history, analysis) == Append(history, analysis)

\* setAnalysisHistory: [...prev, filteredResult].slice(-10)
HistoryAfter(history, analysis) == LastN(Append(history, analysis), HistoryCapacity)

\* A variant of CheckedAnalysis that hands the gateway's result to
\* checkAlerts as it came.
CheckedAnalysis_Unfiltered(result, filteredResult) == result

\* checkAlerts(filteredResult, deviceId): the analysis checkAlerts is given.
CheckedAnalysis(result, filteredResult) == filteredResult

\* The body of the try block for a result with a hazards array.
ProcessResult(call, result) ==
  LET env == call.env
      deviceId == call.cam
      filteredResult == FilteredResult(result, env.alertSettings.categoryThresholds)
      checked == CheckedAnalysis(result, filteredResult)
      updated == HistoryAfter(analysisHistory, filteredResult)
      sms == SmsFires(checked, env.alertSettings, lastSmsTimeRef, now)
      raise == RaisesAlert(checked, env)
  IN  /\ cameraAnalyses' = Put(cameraAnalyses, deviceId, filteredResult)
      /\ cameraLastCheckTime' = Put(cameraLastCheckTime, deviceId, now)
      /\ cameraHazardLevel' =
           Put(cameraHazardLevel, deviceId, MaxSeverity(checked.hazards))
      /\ lastSmsTimeRef' = IF sms THEN now ELSE lastSmsTimeRef
      /\ smsLog' = IF sms THEN Append(smsLog, now) ELSE smsLog
      /\ isAlertActive' = IF raise THEN TRUE ELSE isAlertActive
      /\ oscillatorRef' = IF raise THEN StartAlarm(env, oscillatorRef) ELSE oscillatorRef
      /\ analysisHistory' = updated
      /\ predictions' = GeneratePredictions(filteredResult, updated)
      /\ logs' = <<LogEntry(filteredResult, deviceId)>> \o logs

\* result.hazards.filter throws on a result without hazards: the catch
\* block logs the error and nothing of the try block has taken effect.
ProcessingThrows(result) == "hazards" \notin DOMAIN result

\* A variant of BusyAfterCompletion without the finally block: a throw
\* leaves the busy flag as it is.
BusyAfterCompletion_NoFinally(result) ==
  IF ProcessingThrows(result) THEN isAnalyzing ELSE FALSE

\* finally { setIsAnalyzing(false) }: the busy flag after the call settled
\* and its result was processed.
BusyAfterCompletion(result) == FALSE

RemoveAt(s, i) == SubSeq(s, 1, i - 1) \o SubSeq(s, i + 1, Len(s))

Complete(i) ==
  /\ i \in 1..Len(pending)
  /\ \E answer \in withTimeout(pending[i].deadline, now, gateway) :
       LET result == analyzeSafetyImage(answer) IN
       /\ IF ProcessingThrows(result)
          THEN UNCHANGED <<cameraAnalyses, cameraLastCheckTime, cameraHazardLevel,
                           lastSmsTimeRef, smsLog, isAlertActive, oscillatorRef,
                           analysisHistory, predictions, logs>>
          ELSE ProcessResult(pending[i], result)
       /\ last' = Step("complete", pending[i].cam, <<result, answer>>, <<pending[i].env>>)
       /\ isAnalyzing' = BusyAfterCompletion(result)
  /\ pending' = RemoveAt(pending, i)
  /\ UNCHANGED <<activeDeviceIds, isSmartMode>>
  /\ SelAfter(<<>>, ~isMonitoring)
  /\ UNCHANGED <<now, isMonitoring, currentAnalysisCameraId, alertSettings,
                 isSilenced, cameraCycleIndex, timers, gateway, budget>>

(***************************************************************************)
(* User actions.                                                           *)
(***************************************************************************)
\* stopAlarm: the oscillator afterwards.
StopAlarm(oscillator) == FALSE

\* A variant of AcknowledgeAlert that also clears the hazard levels.
AcknowledgeAlert_ClearsHazards ==
  /\ isAlertActive
  /\ isAlertActive' = FALSE
  /\ oscillatorRef' = FALSE
  /\ isSilenced' = TRUE
  /\ cameraHazardLevel' = EmptyMap
  /\ last' = Step("acknowledge", "", <<>>, <<>>)
  /\ UNCHANGED <<now, activeDeviceIds, isMonitoring, isAnalyzing, isSmartMode,
                 currentAnalysisCameraId, cameraLastCheckTime,
                 cameraAnalyses, analysisHistory, predictions, alertSettings,
                 lastSmsTimeRef, cameraCycleIndex, timers, pending, smsLog, logs,
                 gateway, budget, sel>>

\* The "Acknowledge & Silence" button of the alert overlay, which is shown
\* while isAlertActive.
AcknowledgeAlert ==
  /\ isAlertActive
  /\ isAlertActive' = FALSE
  /\ oscillatorRef' = StopAlarm(oscillatorRef)
  /\ isSilenced' = TRUE
  /\ last' = Step("acknowledge", "", <<>>, <<>>)
  /\ UNCHANGED <<now, activeDeviceIds, isMonitoring, isAnalyzing, isSmartMode,
                 currentAnalysisCameraId, cameraLastCheckTime, cameraHazardLevel,
                 cameraAnalyses, analysisHistory, predictions, alertSettings,
                 lastSmsTimeRef, cameraCycleIndex, timers, pending, smsLog, logs,
                 gateway, budget, sel>>

\* What the settings dialog offers in the model.
MinScoreChoices == {60, 80}
ThresholdChoices == {0, 60}
TunedCategories == {"PPE"}
PhoneChoices == {"", "+15550000000"}

ChangeSettings(new, control, op) ==
  /\ Operates(control)
  /\ new # alertSettings
  /\ alertSettings' = new
  /\ last' = Step(op, "", <<>>, <<>>)
  /\ UNCHANGED <<now, activeDeviceIds, isMonitoring, isAnalyzing, isSmartMode,
                 currentAnalysisCameraId, cameraLastCheckTime, cameraHazardLevel,
                 cameraAnalyses, analysisHistory, predictions, isAlertActive,
                 isSilenced, lastSmsTimeRef, oscillatorRef, cameraCycleIndex,
                 timers, pending, smsLog, logs, gateway, sel>>

\* The "Minimum Safety Score" slider.
SetMinSafetyScore ==
  \E v \in MinScoreChoices :
    ChangeSettings([alertSettings EXCEPT !.minSafetyScore = v],
                   "minSafetyScore", "setMinSafetyScore")

\* A "Hazard Confidence Thresholds" slider.
SetCategoryThreshold ==
  \E cat \in TunedCategories, v \in ThresholdChoices :
    ChangeSettings([alertSettings EXCEPT !.categoryThresholds[cat] = v],
                   "categoryThreshold", "setCategoryThreshold")

\* The "Critical SMS Alerts" switch.
ToggleSms ==
  ChangeSettings([alertSettings EXCEPT !.smsEnabled = ~@], "sms", "toggleSms")

\* The phone number field, shown while smsEnabled.
SetPhoneNumber ==
  /\ alertSettings.smsEnabled
  /\ \E p \in PhoneChoices :
       ChangeSettings([alertSettings EXCEPT !.phoneNumber = p], "sms", "setPhoneNumber")

\* The Smart Mode / Cycle Mode button, shown with two or more active cameras.
ToggleSmartMode ==
  /\ Operates("smartMode")
  /\ Len(activeDeviceIds) > 1
  /\ isSmartMode' = ~isSmartMode
  /\ sel' = <<>>
  /\ last' = Step("toggleSmartMode", "", <<>>, <<>>)
  /\ UNCHANGED <<now, activeDeviceIds, isMonitoring, isAnalyzing,
                 currentAnalysisCameraId, cameraLastCheckTime, cameraHazardLevel,
                 cameraAnalyses, analysisHistory, predictions, alertSettings,
                 isAlertActive, isSilenced, lastSmsTimeRef, oscillatorRef,
                 cameraCycleIndex, timers, pending, smsLog, logs, gateway>>

\* prev.includes(id) ? prev.filter(x => x !== id) : [...prev, id]
Toggled(ids, deviceId) ==
  IF deviceId \in Range(ids)
  THEN SelectSeqBy(ids, Range(ids) \ {deviceId})
  ELSE Append(ids, deviceId)

toggleCamera(deviceId) ==
  /\ Operates("camera")
  /\ activeDeviceIds' = Toggled(activeDeviceIds, deviceId)
  /\ sel' = <<>>
  /\ last' = Step("toggleCamera", deviceId, <<>>, <<>>)
  /\ UNCHANGED <<now, isMonitoring, isAnalyzing, isSmartMode,
                 currentAnalysisCameraId, cameraLastCheckTime, cameraHazardLevel,
                 cameraAnalyses, analysisHistory, predictions, alertSettings,
                 isAlertActive, isSilenced, lastSmsTimeRef, oscillatorRef,
                 cameraCycleIndex, timers, pending, smsLog, logs, gateway>>

ToggleCamera == \E deviceId \in DeviceIds : toggleCamera(deviceId)

\* handleDevices, run when enumerateDevices resolves after the mount and
\* after every change of activeDeviceIds: it selects the first camera when
\* none is selected.
handleDevices ==
  /\ Len(Devices) > 0
  /\ Len(activeDeviceIds) = 0
  /\ activeDeviceIds' = <<Devices[1]>>
  /\ last' = Step("handleDevices", Devices[1], <<>>, <<>>)
  /\ UNCHANGED <<now, isMonitoring, isAnalyzing, isSmartMode,
                 currentAnalysisCameraId, cameraLastCheckTime, cameraHazardLevel,
                 cameraAnalyses, analysisHistory, predictions, alertSettings,
                 isAlertActive, isSilenced, lastSmsTimeRef, oscillatorRef,
                 cameraCycleIndex, timers, pending, smsLog, logs, gateway, budget,
                 sel>>

(***************************************************************************)
(* Time.                                                                   *)
(***************************************************************************)
\* Nothing is due at the present instant: the timer has fired, every call
\* whose watchdog has expired has been resolved, enumerateDevices has
\* answered.
NothingDue ==
  /\ IF timers = <<>> THEN TRUE ELSE timers[1].due > now
  /\ \A i \in 1..Len(pending) : pending[i].deadline > now
  /\ Len(activeDeviceIds) > 0

Elapse(ms, left) ==
  /\ NothingDue
  /\ now' = now + ms
  /\ budget' = left
  /\ last' = Step("elapse", "", <<>>, <<>>)
  /\ UNCHANGED <<activeDeviceIds, isMonitoring, isAnalyzing, isSmartMode,
                 currentAnalysisCameraId, cameraLastCheckTime, cameraHazardLevel,
                 cameraAnalyses, analysisHistory, predictions, alertSettings,
                 isAlertActive, isSilenced, lastSmsTimeRef, oscillatorRef,
                 cameraCycleIndex, timers, pending, smsLog, logs, gateway, sel>>

\* The clock moves on by one step.
Advance ==
  /\ budget.steps > 0
  /\ Elapse(ClockStep, [budget EXCEPT !.steps = @ - 1])

\* The component is left alone, monitoring stopped, for a cooldown period.
Idle ==
  /\ budget.idle > 0
  /\ ~isMonitoring
  /\ pending = <<>>
  /\ Elapse(COOLDOWN, [budget EXCEPT !.idle = @ - 1])

(***************************************************************************)
(* Specifications.                                                         *)
(***************************************************************************)
Next ==
  \/ handleDevices
  \/ ToggleCamera
  \/ ToggleSmartMode
  \/ SetMinSafetyScore
  \/ SetCategoryThreshold
  \/ ToggleSms
  \/ SetPhoneNumber
  \/ StartMonitoring
  \/ StopMonitoring
  \/ Tick
  \/ \E i \in 1..Len(pending) : Complete(i)
  \/ AcknowledgeAlert
  \/ Advance
  \/ Idle

Spec == Init /\ [][Next]_vars

(***************************************************************************)
(* One long monitoring session in smart mode: every camera is selected,    *)
(* the gateway finds every frame clean, so that all hazard levels stay     *)
(* equal.                                                                  *)
(***************************************************************************)
CleanAnswers == {Analysed(90, TRUE, <<>>)}

InitFair ==
  Configured(Devices, TRUE, InitialAlertSettings, CleanAnswers,
             Limits(LongSteps, LongCalls, <<>>, 0))

NextFair ==
  \/ StartMonitoring
  \/ Tick
  \/ \E i \in 1..Len(pending) : Complete(i)
  \/ Advance

SpecFair == InitFair /\ [][NextFair]_vars

(***************************************************************************)
(* The hazard filter on its own: one cycle over a raw hazard list drawn    *)
(* from ProbeLists, under a PPE threshold drawn from ProbeThresholds.      *)
(***************************************************************************)
\* Categories of the raw hazards: one with a slider, one the settings do
\* not map.
ProbeCategories == {"PPE", "ELECTRICAL"}
ProbeConfidences == {0, 50, 59, 60, 100}
ProbeThresholds == {0, 60, 100}

ProbeHazards ==
  {[type |-> "Probe", category |-> c, severity |-> "LOW", confidence |-> k] :
     c \in ProbeCategories, k \in ProbeConfidences}
  \cup {[type |-> "Probe", category |-> c, severity |-> "LOW"] : c \in ProbeCategories}

ProbeLists == UNION {[1..n -> ProbeHazards] : n \in 0..MaxHazards}

InitFilter ==
  \E hz \in ProbeLists, v \in ProbeThresholds :
    Configured(<<>>, TRUE,
               [InitialAlertSettings EXCEPT !.categoryThresholds["PPE"] = v],
               {Analysed(85, TRUE, hz)}, Limits(0, 1, <<>>, 0))

NextFilter ==
  \/ handleDevices
  \/ StartMonitoring
  \/ \E i \in 1..Len(pending) : Complete(i)

SpecFilter == InitFilter /\ [][NextFilter]_vars

(***************************************************************************)
(* A monitoring session in which the remote model never answers: a call is *)
(* settled by the watchdog of withTimeout only.  The event loop runs every *)
(* timer callback that is due and every continuation of a settled promise, *)
(* the wall clock moves on, and the cameras deliver a frame at every tick. *)
(***************************************************************************)
NoAnswers == {}

InitWatchdog ==
  \E ids \in {<<Devices[1]>>, Devices} :
    Configured(ids, TRUE, InitialAlertSettings, NoAnswers,
               Limits(LongSteps, LongCalls, <<>>, 0))

\* A timer tick that goes on to call the gateway.
TickStartsCycle == Tick /\ last'.cam # ""

NextWatchdog ==
  \/ StartMonitoring
  \/ TickStartsCycle
  \/ \E i \in 1..Len(pending) : Complete(i)
  \/ Advance

SpecWatchdog ==
  /\ InitWatchdog
  /\ [][NextWatchdog]_vars
  /\ WF_vars(Advance)
  /\ WF_vars(TickStartsCycle)
  /\ WF_vars(\E i \in 1..Len(pending) : Complete(i))

(***************************************************************************)
(* Monitoring sessions over two cameras in smart mode: the user starts and *)
(* stops monitoring, so that the cameras are analysed one after the other  *)
(* at chosen moments and the next start selects between a camera that was  *)
(* found with a HIGH hazard and one that was found safe.                   *)
(***************************************************************************)
UrgencyAnswers == {Analysed(90, TRUE, <<>>), Analysed(85, FALSE, <<NoHelmet60>>)}

InitUrgency ==
  Configured(<<Devices[1], Devices[2]>>, TRUE, InitialAlertSettings, UrgencyAnswers,
             Limits(UrgencySteps, UrgencyCalls, <<>>, 1))

\* The component is left alone, monitoring stopped, for the time after
\* which a neglected camera is meant to catch up.
Neglect ==
  /\ budget.idle > 0
  /\ ~isMonitoring
  /\ pending = <<>>
  /\ Elapse(NeglectMs, [budget EXCEPT !.idle = @ - 1])

NextUrgency ==
  \/ StartMonitoring
  \/ StopMonitoring
  \/ Tick
  \/ \E i \in 1..Len(pending) : Complete(i)
  \/ Advance
  \/ Neglect

SpecUrgency == InitUrgency /\ [][NextUrgency]_vars

(***************************************************************************)
(* Monitoring while the user changes the camera selection: cameras are     *)
(* toggled before and during a session, in smart mode or in round-robin    *)
(* mode, and the timer ticks.                                              *)
(***************************************************************************)
SelectAnswers == {Analysed(90, TRUE, <<>>)}

InitSelect ==
  \E smart \in BOOLEAN :
    Configured(<<>>, smart, InitialAlertSettings, SelectAnswers,
               Limits(MaxSteps, MaxCalls, <<"camera", "camera">>, 0))

NextSelect ==
  \/ handleDevices
  \/ ToggleCamera
  \/ StartMonitoring
  \/ Tick
  \/ \E i \in 1..Len(pending) : Complete(i)
  \/ Advance

SpecSelect == InitSelect /\ [][NextSelect]_vars

(***************************************************************************)
(* One camera analysed again and again: the user starts monitoring, which  *)
(* runs a cycle at once, and stops it, more often than the history holds   *)
(* records; every start finds the previous analysis completed.             *)
(***************************************************************************)
InitHistory ==
  Configured(<<Devices[1]>>, TRUE, InitialAlertSettings, ScoreAnswers,
             Limits(0, HistoryCalls, <<>>, 0))

\* The user starts monitoring when no analysis is in flight.
StartWhenSettled == StartMonitoring /\ pending = <<>>

NextHistory ==
  \/ StartWhenSettled
  \/ StopMonitoring
  \/ \E i \in 1..Len(pending) : Complete(i)

SpecHistory == InitHistory /\ [][NextHistory]_vars

(***************************************************************************)
(* One camera analysed again and again with scores that feed the          *)
(* prediction heuristics, some of them breaching the minimum score; the    *)
(* user acknowledges alerts.                                               *)
(***************************************************************************)
AdvisoryAnswers == {Analysed(65, TRUE, <<>>), Analysed(55, FALSE, <<>>)}

InitAdvisory ==
  Configured(<<Devices[1]>>, TRUE, InitialAlertSettings, AdvisoryAnswers,
             Limits(0, AdvisoryCalls, <<>>, 0))

NextAdvisory ==
  \/ StartWhenSettled
  \/ StopMonitoring
  \/ \E i \in 1..Len(pending) : Complete(i)
  \/ AcknowledgeAlert

SpecAdvisory == InitAdvisory /\ [][NextAdvisory]_vars

(***************************************************************************)
(* getNextSmartCamera on its own: monitoring is started in smart mode over *)
(* two or three cameras whose last-check times and hazard levels are drawn *)
(* from ProbeChecks and ProbeLevels.                                       *)
(***************************************************************************)
\* Last-check times: never checked, and checked 30, 15 and 0 seconds before
\* the start; 15 seconds of idle time weigh as much as one hazard level.
ProbeChecks == {0, Epoch - 30000, Epoch - 15000, Epoch}
ProbeLevels == 0..3
ProbeActiveSets == {SubSeq(Devices, 1, n) : n \in 2..Len(Devices)}

InitPriority ==
  \E ids \in ProbeActiveSets :
    \E checked \in [Range(ids) -> ProbeChecks], levels \in [Range(ids) -> ProbeLevels] :
      Scheduled(ids, TRUE, InitialAlertSettings, checked, levels, CleanAnswers,
                Limits(0, 1, <<>>, 0))

NextPriority == StartMonitoring

SpecPriority == InitPriority /\ [][NextPriority]_vars

(***************************************************************************)
(* One monitoring session in smart mode over two or three cameras in which *)
(* the first device delivers no frame: getScreenshot returns null at every *)
(* attempt for it and a frame for every other camera.                      *)
(***************************************************************************)
\* The capture fails exactly when the camera of the cycle run in closure c
\* is the first device.
FirstCameraFails(c) == (last'.cam = "") <=> (CycleDevice(c) = Devices[1])

StartFirstFails == StartMonitoring /\ FirstCameraFails(Render)

TickFirstFails == Tick /\ FirstCameraFails(timers[1].callback)

\* The clock moves on while the session lasts.
AdvanceInSession == Advance /\ isMonitoring

NextStarve ==
  \/ StartFirstFails
  \/ TickFirstFails
  \/ \E i \in 1..Len(pending) : Complete(i)
  \/ AdvanceInSession

\* The active sets of two or three cameras that hold the first device, in
\* every order.
StarveActiveSets ==
  {ids \in UNION {[1..n -> DeviceIds] : n \in 2..Len(Devices)} :
     /\ \A i, j \in DOMAIN ids : ids[i] = ids[j] => i = j
     /\ Devices[1] \in Range(ids)}

InitStarve ==
  \E ids \in StarveActiveSets :
    Configured(ids, TRUE, InitialAlertSettings, CleanAnswers,
               Limits(LongSteps, LongCalls, <<>>, 0))

SpecStarve == InitStarve /\ [][NextStarve]_vars

(***************************************************************************)
(* One camera analysed again and again by a gateway whose requests         *)
(* sometimes fail: the user starts and stops monitoring, every start       *)
(* finding the previous call completed, and the clock moves on.            *)
(***************************************************************************)
RecoveryAnswers == {Analysed(85, FALSE, <<NoHelmet60>>), Rejected(HttpFailure)}

InitRecovery ==
  Configured(<<Devices[1]>>, TRUE, InitialAlertSettings, RecoveryAnswers,
             Limits(MaxSteps, RecoveryCalls, <<>>, 0))

NextRecovery ==
  \/ StartWhenSettled
  \/ StopMonitoring
  \/ \E i \in 1..Len(pending) : Complete(i)
  \/ Advance

SpecRecovery == InitRecovery /\ [][NextRecovery]_vars

(***************************************************************************)
(* checkAlerts over the values of AlertSettings.  The settings dialog has  *)
(* controls for the minimum score, the confidence thresholds and the SMS   *)
(* channel only; minSeverityTrigger and soundEnabled keep the values the   *)
(* component is built with.  To check checkAlerts and startAlarm as        *)
(* functions of the settings these two fields are drawn from their types   *)
(* when the component is constructed.  One camera is monitored: analyses   *)
(* breach the minimum score or carry a HIGH hazard, the user acknowledges  *)
(* alerts and starts and stops monitoring, the timer ticks.                *)
(***************************************************************************)
SeverityAnswers == {Analysed(55, FALSE, <<>>), Analysed(85, FALSE, <<NoHelmet60>>)}

\* The settings built with the given severity trigger, after the user
\* switched the SMS alerts on and entered a phone number.
SeveritySettings(trigger) ==
  [InitialAlertSettings EXCEPT !.minSeverityTrigger = trigger,
                               !.smsEnabled = TRUE,
                               !.phoneNumber = "+15550000000"]

InitSeverity ==
  \E trigger \in SeverityTriggers :
    Configured(<<Devices[1]>>, TRUE, SeveritySettings(trigger), SeverityAnswers,
               Limits(MaxSteps, SeverityCalls, <<>>, 0))

NextSeverity ==
  \/ StartWhenSettled
  \/ StopMonitoring
  \/ Tick
  \/ \E i \in 1..Len(pending) : Complete(i)
  \/ AcknowledgeAlert
  \/ Advance

SpecSeverity == InitSeverity /\ [][NextSeverity]_vars

\* The same sessions with the default severity trigger, soundEnabled drawn
\* from its type, and scores on both sides of the minimum.
InitSound ==
  \E sound \in BOOLEAN :
    Configured(<<Devices[1]>>, TRUE,
               [InitialAlertSettings EXCEPT !.soundEnabled = sound],
               ScoreAnswers, Limits(MaxSteps, MaxCalls, <<>>, 0))

SpecSound == InitSound /\ [][NextSeverity]_vars

(***************************************************************************)
(* Properties.  last describes the step that led to the present state; in  *)
(* an action formula last' describes the step being taken.                 *)
(***************************************************************************)
\* C1: while monitoring runs, a timer tick that fires while a gateway call
\* is still pending starts no second call, so that at most one call is in
\* flight after any sequence of ticks and completions.
C1_TickStartsNoSecondCall ==
  ~(last.op = "tick" /\ last.cam # "" /\ Len(pending) >= 2)

\* C2: in smart mode with three active cameras of equal hazard level whose
\* frame captures succeed, every active camera is among the cameras of any
\* 3*c cycles started in a row, here with c = 2.
C2_NoCameraStarved ==
  LET window == 2 * Len(Devices)
  IN  Len(sel) >= window =>
        \A d \in Range(activeDeviceIds) : d \in Range(LastN(sel, window))

\* C3: when a completed, filtered analysis is evaluated while the alert state
\* is IDLE and it breaches the configured settings (score below
\* minSafetyScore, or highest severity at or above minSeverityTrigger), the
\* alert state becomes ACTIVE and the alarm sounds.
C3_BreachRaisesAlert ==
  [][ ( /\ last'.op = "complete"
        /\ ~ProcessingThrows(last'.raw[1])
        /\ ~isAlertActive /\ ~isSilenced
        /\ ShouldTrigger(cameraAnalyses'[last'.cam], alertSettings) )
      => (isAlertActive' /\ ~isSilenced' /\ oscillatorRef') ]_vars

\* C4: when the evaluated analysis has a score of at least minSafetyScore
\* and a highest severity below minSeverityTrigger, the alert state is the
\* same before and after the evaluation.
C4_NoBreachNoTransition ==
  [][ ( /\ last'.op = "complete"
        /\ ~ProcessingThrows(last'.raw[1])
        /\ ~ShouldTrigger(cameraAnalyses'[last'.cam], alertSettings) )
      => (isAlertActive' = isAlertActive /\ isSilenced' = isSilenced) ]_vars

\* C5: once the alert state is SILENCED it stays SILENCED, and the alarm is
\* not started again, through every step but the stop of monitoring, which
\* leads to IDLE.
C5_SilencedPersists ==
  [][ (isSilenced /\ ~isAlertActive)
      => \/ isSilenced' /\ ~isAlertActive' /\ (oscillatorRef' => oscillatorRef)
         \/ last'.op = "stop" /\ ~isSilenced' /\ ~isAlertActive' ]_vars

\* C6: acknowledgeAlert taken in state ACTIVE leads to SILENCED, stops the
\* alarm, and leaves the hazard levels, the latest analyses, the last-check
\* times and the history as they were.
C6_AcknowledgeFrame ==
  [][ (last'.op = "acknowledge" /\ isAlertActive /\ ~isSilenced)
      => /\ isSilenced' /\ ~isAlertActive' /\ ~oscillatorRef'
         /\ UNCHANGED <<cameraHazardLevel, cameraAnalyses, cameraLastCheckTime,
                        analysisHistory>> ]_vars

\* C6, reached: an alert raised for a HIGH hazard has been acknowledged and
\* the hazard level of the camera still stands.
C6_Acknowledged ==
  /\ last.op = "acknowledge"
  /\ isSilenced /\ ~isAlertActive /\ ~oscillatorRef
  /\ analysisHistory # <<>>
  /\ \E d \in DOMAIN cameraHazardLevel : cameraHazardLevel[d] = 3

\* C7: two SMS messages are always more than the cooldown apart, so that no
\* period of two cooldowns (10 minutes) sees more than two of them.
C7_SmsCooldown ==
  /\ \A i \in 1..(Len(smsLog) - 1) : smsLog[i + 1] - smsLog[i] > COOLDOWN
  /\ \A i \in 1..Len(smsLog) :
       Cardinality({j \in 1..Len(smsLog) :
                      smsLog[j] >= smsLog[i] /\ smsLog[j] < smsLog[i] + 2 * COOLDOWN}) <= 2

\* C7, reached: an analysis with a HIGH hazard has just completed with SMS
\* enabled and a phone number set, inside the cooldown of a message sent
\* earlier, and no message was sent for it.
C7_Suppressed ==
  /\ last.op = "complete"
  /\ ~ProcessingThrows(last.raw[1])
  /\ last.env[1].alertSettings.smsEnabled
  /\ last.env[1].alertSettings.phoneNumber # ""
  /\ \E h \in Range(cameraAnalyses[last.cam].hazards) : h.severity = "HIGH"
  /\ smsLog # <<>>
  /\ lastSmsTimeRef = smsLog[Len(smsLog)]
  /\ lastSmsTimeRef < now
  /\ now - lastSmsTimeRef <= COOLDOWN

C9_FilterMatchesReference ==
  (last.op = "complete" /\ ~ProcessingThrows(last.raw[1])) =>
    LET thresholds == last.env[1].alertSettings.categoryThresholds
        raw == last.raw[1].hazards
        Kept(h) ==
          (IF "confidence" \in DOMAIN h THEN h.confidence ELSE 100)
            >= (IF h.category \in DOMAIN thresholds THEN thresholds[h.category] ELSE 50)
    IN  cameraAnalyses[last.cam].hazards = SelectSeqBy(raw, {h \in Range(raw) : Kept(h)})

\* C10: every analysis stored per camera, kept in the history or passed to
\* onNewAnalysis has isSafe true exactly when its hazard list is empty and
\* its safetyScore is above 80.
C10_IsSafeRecomputed ==
  LET Sound(a) == a.isSafe <=> (Len(a.hazards) = 0 /\ a.safetyScore > 80)
  IN  /\ \A d \in DOMAIN cameraAnalyses : Sound(cameraAnalyses[d])
      /\ \A i \in 1..Len(analysisHistory) : Sound(analysisHistory[i])
      /\ \A i \in 1..Len(logs) : Sound(logs[i])

\* C10, reached: the timeout result, which the gateway marks safe, has been
\* stored, kept in the history and logged as not safe.
C10_TimeoutStoredUnsafe ==
  /\ last.op = "complete"
  /\ last.raw[1] = TimeoutResult
  /\ last.raw[1].isSafe
  /\ ~cameraAnalyses[last.cam].isSafe
  /\ ~analysisHistory[Len(analysisHistory)].isSafe
  /\ ~logs[1].isSafe

\* C11: the hazard filter is idempotent: filtering the filtered analysis again
\* with the same thresholds gives the same hazard list and the same isSafe.
C11_FilterIdempotent ==
  (last.op = "complete" /\ ~ProcessingThrows(last.raw[1])) =>
    LET thresholds == last.env[1].alertSettings.categoryThresholds
        once == cameraAnalyses[last.cam]
        twice == FilteredResult(once, thresholds)
    IN  twice.hazards = once.hazards /\ twice.isSafe = once.isSafe

\* C11, reached: the filter has removed at least one hazard from an analysis
\* whose score is above 80.
C11_FilterActed ==
  /\ last.op = "complete"
  /\ ~ProcessingThrows(last.raw[1])
  /\ Len(last.raw[1].hazards) > Len(cameraAnalyses[last.cam].hazards)
  /\ last.raw[1].safetyScore > 80

\* C13: whenever a pending gateway call completes, with an analysis, the
\* timeout result, an error result or a throw while the result is processed,
\* the busy flag is false afterwards.
C13_BusyClearedOnCompletion ==
  last.op = "complete" => ~isAnalyzing

\* C13, reached: a call has completed with an answer whose processing threw,
\* while the busy flag was set, and the flag is clear.
C13_ClearedAfterThrow ==
  /\ last.op = "complete"
  /\ ProcessingThrows(last.raw[1])
  /\ ~isAnalyzing
  /\ isMonitoring

C14_CaptureFailureSkipsCycle ==
  [][ ( /\ last'.op = "tick"
        /\ last'.cam = ""
        /\ ~ReturnsEarly(timers[1].callback) )
      => /\ pending' = pending
         /\ ~isAnalyzing'
         /\ UNCHANGED <<cameraAnalyses, cameraLastCheckTime, cameraHazardLevel,
                        isAlertActive, isSilenced, oscillatorRef, analysisHistory,
                        logs, smsLog>> ]_vars

\* C15: while monitoring runs, processing the timeout result of the gateway
\* causes no transition from IDLE to ACTIVE, and leaves the hazard level of
\* every camera as it was.
C15_TimeoutNotDestructive ==
  [][ (last'.op = "complete" /\ last'.raw[1] = TimeoutResult /\ isMonitoring)
      => /\ (~isAlertActive /\ ~isSilenced) => ~isAlertActive'
         /\ \A d \in DeviceIds :
              GetOr0(cameraHazardLevel', d) = GetOr0(cameraHazardLevel, d) ]_vars
C17_FailureSentinel ==
  /\ (last.op = "complete" /\ "error" \in DOMAIN last.raw[2]
        /\ last.raw[2].error \in {RequestTimeout, HttpFailure})
     => last.raw[1].safetyScore = 0 - 1
  /\ (last.op = "complete" /\ "error" \notin DOMAIN last.raw[2])
     => last.raw[1].safetyScore # 0 - 1
C19_SelectsFromActiveSet ==
  [][ last'.op = "tick"
      => LET c == timers[1].callback IN
         /\ ~ReturnsEarly(c) => CycleDevice(c) \in Range(activeDeviceIds)
         /\ last'.cam # ""
              => /\ last'.cam = CycleDevice(c)
                 /\ pending' = Append(pending, NewCall(c))
                 /\ currentAnalysisCameraId' = last'.cam
         /\ (Len(activeDeviceIds) = 1 /\ ~ReturnsEarly(c))
              => CycleDevice(c) = activeDeviceIds[1]
         /\ Len(activeDeviceIds) = 0
              => /\ last'.cam = ""
                 /\ UNCHANGED <<activeDeviceIds, isMonitoring, isAnalyzing,
                                isSmartMode, currentAnalysisCameraId,
                                cameraLastCheckTime, cameraHazardLevel,
                                cameraAnalyses, analysisHistory, predictions,
                                alertSettings, isAlertActive, isSilenced,
                                lastSmsTimeRef, oscillatorRef, cameraCycleIndex,
                                pending, smsLog, logs>> ]_vars
\* C20: the history holds at most 10 records: after n analyses have been
\* processed it holds the min(n, 10) most recent filtered analyses, oldest
\* first in the order of their completion (logs holds every processed
\* analysis, newest first).
C20_HistoryKeepsLastTen ==
  /\ Len(analysisHistory) <= 10
  /\ Len(analysisHistory) = Min(Len(logs), HistoryCapacity)
  /\ \A k \in 1..Len(analysisHistory) :
       LET e == logs[Len(analysisHistory) - k + 1]
       IN  analysisHistory[k] =
             [safetyScore |-> e.safetyScore, isSafe |-> e.isSafe,
              summary |-> e.summary, hazards |-> e.hazards]

\* Witness for C20: more analyses than the history holds have completed,
\* the record evicted last differs from the oldest record kept, and the
\* records kept are not all the same.
C20_OldestEvicted ==
  /\ Len(logs) > HistoryCapacity
  /\ Len(analysisHistory) = HistoryCapacity
  /\ logs[HistoryCapacity + 1].safetyScore # analysisHistory[1].safetyScore
  /\ analysisHistory[1].safetyScore # analysisHistory[HistoryCapacity].safetyScore

\* C21: the prediction heuristics do not affect the alert state machine:
\* when an analysis is processed, the predictions become what
\* generatePredictions computes from the analysis and the history, and the
\* alert flag, the silence flag, the alarm and the SMS log become what the
\* filtered analysis, the settings and the alert state read by the call
\* determine, whatever the history and the predictions hold.
C21_PredictionsAdvisory ==
  [][ (last'.op = "complete" /\ ~ProcessingThrows(last'.raw[1]))
      => LET env == last'.env[1]
             filtered == FilteredResult(last'.raw[1], env.alertSettings.categoryThresholds)
             breach == ShouldTrigger(filtered, env.alertSettings)
             raise == breach /\ ~env.isAlertActive /\ ~env.isSilenced
             sms == SmsFires(filtered, env.alertSettings, lastSmsTimeRef, now)
         IN  /\ predictions' = GeneratePredictions(filtered, analysisHistory')
             /\ isAlertActive' = (isAlertActive \/ raise)
             /\ isSilenced' = isSilenced
             /\ oscillatorRef' = (oscillatorRef \/ (raise /\ env.alertSettings.soundEnabled))
             /\ smsLog' = IF sms THEN Append(smsLog, now) ELSE smsLog ]_vars

\* Witness for C21: an analysis was processed, the heuristics predict
\* fatigue from the history, and the alert state is IDLE with the alarm off.
C21_PredictionWithoutAlert ==
  /\ last.op = "complete"
  /\ \E i \in 1..Len(predictions) :
       predictions[i].hazardType = "Worker Fatigue / Decreased Attention"
  /\ Len(analysisHistory) > 3
  /\ ~isAlertActive
  /\ ~isSilenced
  /\ ~oscillatorRef

\* C22: a gateway result that arrives after monitoring was stopped while the
\* call was pending is discarded: processing it changes neither the
\* per-camera state, nor the alert state and the alarm, nor the history, nor
\* the log.
C22_LateResultDiscarded ==
  [][ (last'.op = "complete" /\ ~isMonitoring)
      => UNCHANGED <<cameraAnalyses, cameraLastCheckTime, cameraHazardLevel,
                     isAlertActive, isSilenced, oscillatorRef,
                     analysisHistory, logs>> ]_vars

\* C23: when acknowledgeAlert is taken while a gateway call is pending and
\* the next step is the completion of that call with a result that breaches
\* the settings, the alert state is SILENCED and the alarm is off after the
\* completion.
C23_AcknowledgeSurvivesCompletion ==
  [][ ( /\ last.op = "acknowledge"
        /\ last'.op = "complete"
        /\ ~ProcessingThrows(last'.raw[1])
        /\ ShouldTrigger(FilteredResult(last'.raw[1], alertSettings.categoryThresholds),
                         alertSettings) )
      => isSilenced' /\ ~isAlertActive' /\ ~oscillatorRef' ]_vars

\* C24: the alert state is exactly one of IDLE, ACTIVE and SILENCED: the
\* flags isAlertActive and isSilenced are never both true.
C24_OneAlertState ==
  ~(isAlertActive /\ isSilenced)

\* C25: in smart mode with two or more active cameras, the camera selected
\* has the greatest priority, seconds since the last check plus 15 times
\* the hazard level (compared in milliseconds), and no camera before it in
\* the order of the active set has the same priority.
C25_SelectsMaxPriority ==
  (last.op = "start" /\ last.cam # "" /\ isSmartMode /\ Len(activeDeviceIds) >= 2)
  => LET priority(d) == (now - GetOr0(cameraLastCheckTime, d))
                          + GetOr0(cameraHazardLevel, d) * 15 * 1000
     IN  \E k \in 1..Len(activeDeviceIds) :
           /\ activeDeviceIds[k] = last.cam
           /\ \A i \in 1..Len(activeDeviceIds) :
                /\ priority(activeDeviceIds[i]) <= priority(last.cam)
                /\ priority(activeDeviceIds[i]) = priority(last.cam) => k <= i

\* Witness for C25: the selected camera is not the first; a camera before
\* it has a smaller priority and a camera after it has the same priority,
\* made of a different idle time and a different hazard level.
C25_TieKeepsFirst ==
  /\ last.op = "start"
  /\ isSmartMode
  /\ Len(activeDeviceIds) = 3
  /\ last.cam = activeDeviceIds[2]
  /\ cameraHazardLevel[activeDeviceIds[2]] # cameraHazardLevel[activeDeviceIds[3]]
  /\ (now - cameraLastCheckTime[activeDeviceIds[2]])
       + cameraHazardLevel[activeDeviceIds[2]] * 15 * 1000
     = (now - cameraLastCheckTime[activeDeviceIds[3]])
       + cameraHazardLevel[activeDeviceIds[3]] * 15 * 1000

\* C26: in smart mode with two or more active cameras no camera keeps the
\* scheduler to itself: a timer tick does not select a camera while another
\* active camera has an idle time that has outgrown the selected camera's
\* idle time by more than its severity boost (15 seconds per hazard level),
\* so that every other camera is selected once its idle time is large
\* enough.
C26_NoMonopoly ==
  [][ (last'.op = "tick" /\ last'.cam # "" /\ isSmartMode /\ Len(activeDeviceIds) >= 2)
      => \A other \in Range(activeDeviceIds) :
           now - GetOr0(cameraLastCheckTime, other)
             <= (now - GetOr0(cameraLastCheckTime, last'.cam))
                  + GetOr0(cameraHazardLevel, last'.cam) * HazardMultiplier * 1000 ]_vars

\* C27: in smart mode, when the frame capture of one active camera fails at
\* every attempt, that camera does not stay the choice of the scheduler:
\* after the start of the session and LongSteps ticks of its timer a cycle
\* for another camera has been started.
C27_FailingCameraGivesWay ==
  (last.op = "tick" /\ isSmartMode /\ now >= Epoch + LongSteps * IntervalMs(2))
  => currentAnalysisCameraId # ""

\* C28: starting monitoring again after it was stopped while a gateway call
\* was pending starts no second call while the first is in flight: after a
\* start that began a cycle, one call is pending.
C28_RestartStartsNoSecondCall ==
  ~(last.op = "start" /\ last.cam # "" /\ Len(pending) >= 2)

C30_ErrorKeepsCameraState ==
  [][ ( /\ last'.op = "complete"
        /\ last'.raw[1] \in {ErrorResult, UnauthorizedResult}
        /\ last'.cam \in DOMAIN cameraAnalyses
        /\ cameraAnalyses[last'.cam].summary = "analysis" )
      => /\ cameraLastCheckTime'[last'.cam] = cameraLastCheckTime[last'.cam]
         /\ cameraHazardLevel'[last'.cam] = cameraHazardLevel[last'.cam]
         /\ cameraAnalyses'[last'.cam] = cameraAnalyses[last'.cam] ]_vars

\* C31: the head-injury prediction is shown only when two or more of the
\* analyses in the history window, which holds the current analysis once,
\* contain a helmet or head hazard: with one such analysis in the window
\* there is no head-injury prediction.
C31_HeadInjuryNeedsTwo ==
  (\E i \in 1..Len(predictions) : predictions[i].hazardType = "High Risk of Head Injury")
  => Cardinality({k \in 1..Len(analysisHistory) :
                    \E h \in Range(analysisHistory[k].hazards) :
                      h.type \in {"No Helmet"}}) >= 2

\* C32: the SMS side channel is independent of the alarm state: when an
\* analysis is processed, a message is sent exactly when SMS is enabled
\* with a phone number, the analysis has a HIGH hazard and the cooldown has
\* elapsed, whether the alert state is IDLE, ACTIVE or SILENCED and whether
\* or not the analysis raises the main alarm.
C32_SmsIndependentOfAlarm ==
  [][ (last'.op = "complete" /\ ~ProcessingThrows(last'.raw[1]))
      => LET settings == last'.env[1].alertSettings
             analysis == cameraAnalyses'[last'.cam]
             decision ==
               /\ settings.smsEnabled
               /\ settings.phoneNumber # ""
               /\ \E h \in Range(analysis.hazards) : h.severity = "HIGH"
               /\ now - lastSmsTimeRef > COOLDOWN
         IN  /\ decision => (smsLog' = Append(smsLog, now) /\ lastSmsTimeRef' = now)
             /\ ~decision => (smsLog' = smsLog /\ lastSmsTimeRef' = lastSmsTimeRef) ]_vars

\* Witness for C32: a message was sent for an analysis with a HIGH hazard
\* that does not raise the main alarm (the severity trigger is OFF and the
\* score is not below the minimum), while the alert state was SILENCED.
C32_SmsWhileSilenced ==
  /\ last.op = "complete"
  /\ smsLog # <<>>
  /\ smsLog[Len(smsLog)] = now
  /\ isSilenced
  /\ ~isAlertActive
  /\ last.env[1].isSilenced
  /\ alertSettings.minSeverityTrigger = "OFF"
  /\ cameraAnalyses[last.cam].safetyScore >= alertSettings.minSafetyScore

\* C33: with minSeverityTrigger OFF, hazard severity never raises the
\* alarm: processing an analysis whose score is at least minSafetyScore,
\* whatever its hazards, leaves the alert state and the alarm as they were,
\* and a step from IDLE to ACTIVE is taken for a score below minSafetyScore
\* only.
C33_OffNeverTriggersOnSeverity ==
  [][ ( /\ last'.op = "complete"
        /\ ~ProcessingThrows(last'.raw[1])
        /\ alertSettings.minSeverityTrigger = "OFF"
        /\ last'.env[1].alertSettings.minSeverityTrigger = "OFF" )
      => LET score == cameraAnalyses'[last'.cam].safetyScore IN
         /\ score >= alertSettings.minSafetyScore
              => /\ isAlertActive' = isAlertActive
                 /\ isSilenced' = isSilenced
                 /\ oscillatorRef' = oscillatorRef
         /\ (~isAlertActive /\ ~isSilenced /\ isAlertActive')
              => score < alertSettings.minSafetyScore ]_vars

\* Witness for C33: with the trigger OFF an analysis with a HIGH hazard and
\* a score of at least minSafetyScore was processed while monitoring runs,
\* and the alert state is IDLE with the alarm off.
C33_HighHazardNoAlarm ==
  /\ last.op = "complete"
  /\ isMonitoring
  /\ alertSettings.minSeverityTrigger = "OFF"
  /\ cameraHazardLevel[last.cam] = 3
  /\ cameraAnalyses[last.cam].safetyScore >= alertSettings.minSafetyScore
  /\ ~isAlertActive
  /\ ~isSilenced
  /\ ~oscillatorRef

\* C34: a gateway error result is evaluated like any other analysis: it has
\* safetyScore 0 and no hazards, so when it is processed in state IDLE with
\* minSafetyScore above 0 the alert state becomes ACTIVE, the alarm starts
\* and the hazard level of the camera is set to 0.
C34_ErrorResultRaisesAlert ==
  [][ ( /\ last'.op = "complete"
        /\ "error" \in DOMAIN last'.raw[2]
        /\ last'.raw[2].error # RequestTimeout
        /\ ~isAlertActive /\ ~isSilenced
        /\ alertSettings.minSafetyScore > 0 )
      => /\ last'.raw[1].safetyScore = 0
         /\ last'.raw[1].hazards = <<>>
         /\ isAlertActive'
         /\ ~isSilenced'
         /\ oscillatorRef'
         /\ cameraHazardLevel'[last'.cam] = 0 ]_vars

\* C35: stopping monitoring resets SILENCED to IDLE and clears the busy flag
\* and the predictions, but it does not leave ACTIVE: isAlertActive is the
\* same before and after the stop, and once true it stays true through
\* every step but acknowledgeAlert.
C35_StopKeepsActive ==
  [][ /\ last'.op = "stop"
           => /\ ~isSilenced'
              /\ ~isAnalyzing'
              /\ predictions' = <<>>
              /\ isAlertActive' = isAlertActive
      /\ (isAlertActive /\ last'.op # "acknowledge") => isAlertActive' ]_vars

\* Witness for C35: monitoring was stopped in state ACTIVE with a gateway
\* call pending and enough history for the heuristics to have predicted;
\* the state is still ACTIVE, the busy flag and the predictions are clear.
C35_StoppedWhileActive ==
  /\ last.op = "stop"
  /\ isAlertActive
  /\ ~isSilenced
  /\ pending # <<>>
  /\ ~isAnalyzing
  /\ predictions = <<>>
  /\ Len(analysisHistory) > 3

\* C36: while monitoring is stopped no cycle begins and no gateway call is
\* issued until monitoring is started again: no timer is set, no tick is
\* taken, and no step but the start adds a call or changes the camera under
\* analysis; the start runs one cycle at once, issuing at most one call,
\* and sets one timer, each tick of which runs one cycle, issuing at most
\* one call.
C36_NoCycleWhileStopped ==
  [][ /\ (~isMonitoring /\ last'.op # "start")
           => /\ last'.op # "tick"
              /\ timers' = <<>>
              /\ Len(pending') <= Len(pending)
              /\ \A i \in 1..Len(pending') : \E j \in 1..Len(pending) : pending'[i] = pending[j]
              /\ currentAnalysisCameraId' = currentAnalysisCameraId
      /\ last'.op = "start"
           => /\ Len(timers') = 1
              /\ timers'[1].due = now + timers'[1].period
              /\ Len(pending') = Len(pending) + (IF last'.cam # "" THEN 1 ELSE 0)
      /\ last'.op = "tick"
           => /\ isMonitoring
              /\ timers[1].due = now
              /\ timers'[1].due = now + timers[1].period
              /\ Len(pending') = Len(pending) + (IF last'.cam # "" THEN 1 ELSE 0) ]_vars

\* Witness for C36: monitoring is stopped with the call of its immediate
\* cycle still pending, the clock has passed the moment at which the timer
\* of the session would have fired, and no second call was issued.
C36_StoppedPastTick ==
  /\ ~isMonitoring
  /\ last.op = "elapse"
  /\ Len(pending) = 1
  /\ timers = <<>>
  /\ now >= (pending[1].deadline - API_TIMEOUT_MS) + IntervalMs(Len(activeDeviceIds))

\* C37: in cycle mode with N active cameras, a timer tick that passes the
\* guard of captureAndAnalyze advances the round-robin index by one modulo
\* N and selects the camera at the new index of the active set, whatever
\* the hazard levels and last-check times, so that N such ticks in a row
\* select every active camera once.
C37_RoundRobinAdvances ==
  [][ ( /\ last'.op = "tick"
        /\ ~isSmartMode
        /\ Len(activeDeviceIds) > 0
        /\ ~ReturnsEarly(timers[1].callback) )
      => /\ cameraCycleIndex' = (cameraCycleIndex + 1) % Len(activeDeviceIds)
         /\ last'.cam # "" => last'.cam = activeDeviceIds[cameraCycleIndex' + 1] ]_vars

\* C38: the audible alarm sounds only in state ACTIVE: whenever the
\* oscillator is running, isAlertActive is true, so the alarm never sounds
\* in state IDLE or SILENCED, and soundEnabled is true, so the alarm is
\* never started with the sound disabled.
C38_AlarmOnlyWhenActive ==
  oscillatorRef => (isAlertActive /\ alertSettings.soundEnabled)

\* Witness for C38: the alarm is sounding in state ACTIVE after a second
\* analysis was processed.
C38_AlarmSounding ==
  /\ last.op = "complete"
  /\ oscillatorRef
  /\ isAlertActive
  /\ ~isSilenced
  /\ Len(logs) >= 2

\* C39: in smart mode with two or more active cameras, a cycle that starts
\* while some active camera has never been analysed (it has no last-check
\* time) selects a camera that has never been analysed, whatever the
\* hazard levels, so that N active cameras with successful captures are
\* each analysed once in the first N cycles of a session.
C39_NeverAnalysedFirst ==
  [][ ( /\ last'.op \in {"start", "tick"}
        /\ last'.cam # ""
        /\ isSmartMode
        /\ Len(activeDeviceIds) >= 2
        /\ \E d \in Range(activeDeviceIds) : GetOr0(cameraLastCheckTime, d) = 0 )
      => GetOr0(cameraLastCheckTime, last'.cam) = 0 ]_vars

\* C40: no gateway call is issued for a camera that is not in the active
\* set at the time of the tick, and after a camera was deactivated during
\* monitoring the remaining active cameras continue to be analysed: a tick
\* of a smart-mode session that passes its guard while cameras are active
\* captures from an active camera (the choice of such a tick is repeated
\* by every later tick of the session, see C2).
C40_OnlyActiveCameras ==
  [][ last'.op = "tick"
      => /\ last'.cam # ""
              => /\ last'.cam \in Range(activeDeviceIds)
                 /\ pending'[Len(pending')].cam \in Range(activeDeviceIds)
         /\ ( /\ ~ReturnsEarly(timers[1].callback)
              /\ timers[1].callback.isSmartMode
              /\ Len(activeDeviceIds) > 0
              /\ Range(timers[1].callback.activeDeviceIds) \ Range(activeDeviceIds) # {} )
              => HasWebcam(CycleDevice(timers[1].callback)) ]_vars
====
